---- MODULE Spec2Model ----
(***************************************************************************)
(* A model of the AuditAI claim-processing pipeline                        *)
(* (ClaimProcessingPipeline.run and the five agents it sequences).         *)
(*                                                                         *)
(* Text is modelled at word granularity: a string is a sequence of words,  *)
(* concatenation is \o, Python's `needle in s` is contiguous-subsequence   *)
(* search, str.startswith is prefix comparison and str.lower maps every    *)
(* word through LowerWord.  The empty string is << >>.                     *)
(*                                                                         *)
(* A JSON value is a record [t, n, s]: t is "null", "num", "str" or        *)
(* "absent" (the key is not in the dict), n the number, s the string.      *)
(* Floating-point confidences are kept in hundredths (0.7 is 70).          *)
(***************************************************************************)
EXTENDS Integers, Sequences, FiniteSets, TLC

VARIABLES
    pc,                    \* position of ClaimProcessingPipeline.run
    language,              \* the language argument of run
    doc_intel_output,      \* DocIntelOutput of step 1
    extraction_output,     \* ExtractionOutput.extracted_data of step 2
    validation_result,     \* ValidationResult of step 3
    risk_analysis_output,  \* RiskAnalysisOutput of step 4
    final_report,          \* ReportOutput of step 5
    llm_log,               \* outcome of every GeminiClient.generate_content call, in order
    stages,                \* the stages whose process() has been entered, in order
    risk_trace,            \* what happened inside step 4 (history of the run)
    mode,                  \* "run" or "demo": which entry point of the pipeline is running
    demo_results,          \* the per-stage map `results` run_for_demo builds
    report_path,           \* the path run_for_demo saved the report to
    doc_request,           \* the document handed to DocIntelAgent.process on its own
    attempts,              \* outcomes of the attempts of one generate_content call
    steps_status           \* the per-step status map of the web UI

vars == <<pc, language, doc_intel_output, extraction_output, validation_result,
          risk_analysis_output, final_report, llm_log, stages, risk_trace,
          mode, demo_results, report_path, doc_request, attempts, steps_status>>

(***************************************************************************)
(* Bounds of the model.                                                    *)
(***************************************************************************)
MaxRedFlags == 2        \* red flags attached to one field of a collaboration reply
MaxIndicators == 1      \* indicators listed on the ADDITIONAL_FRAUD_INDICATORS line

(***************************************************************************)
(* Word-level strings.                                                     *)
(***************************************************************************)
Contains(s, needle) ==
    \E i \in 1..(Len(s) - Len(needle) + 1) : SubSeq(s, i, i + Len(needle) - 1) = needle

StartsWith(s, prefix) ==
    Len(s) >= Len(prefix) /\ SubSeq(s, 1, Len(prefix)) = prefix

LowerWord(w) ==
    CASE w = "Yes" -> "yes"
      [] w = "No" -> "no"
      [] w = "None" -> "none"
      [] w = "Low" -> "low"
      [] w = "Medium" -> "medium"
      [] w = "High" -> "high"
      [] w = "Critical" -> "critical"
      [] w = "Insufficient" -> "insufficient"
      [] w = "Unknown" -> "unknown"
      [] w = "N/A" -> "n/a"
      [] OTHER -> w

Lower(s) == [i \in 1..Len(s) |-> LowerWord(s[i])]

(***************************************************************************)
(* JSON values and Python truthiness.                                      *)
(***************************************************************************)
JNull == [t |-> "null", n |-> 0, s |-> << >>]
JAbsent == [t |-> "absent", n |-> 0, s |-> << >>]
JNum(x) == [t |-> "num", n |-> x, s |-> << >>]
JStr(x) == [t |-> "str", n |-> 0, s |-> x]

\* dict.get(key): a missing key reads as None
Get(d, k) == IF d[k].t = "absent" THEN JNull ELSE d[k]

\* bool(value)
Truthy(v) ==
    CASE v.t = "num" -> v.n # 0
      [] v.t = "str" -> v.s # << >>
      [] OTHER -> FALSE

\* str(value) as used in f-strings
Str(v) ==
    CASE v.t = "num" -> << ToString(v.n) >>
      [] v.t = "str" -> v.s
      [] OTHER -> << "None" >>

None == [none |-> TRUE]

\* the result of a call that raised instead of returning
Raised == [raised |-> TRUE]

(***************************************************************************)
(* Step 1: DocIntelAgent.process.                                          *)
(***************************************************************************)
NoMetadata ==
    [processing_method |-> "", requires_manual_review |-> FALSE, error |-> FALSE,
     file_size_kb |-> -1, privacy_sensitive |-> FALSE, document_version |-> FALSE,
     image_quality_assessment |-> << >>]

\* extracted_text is given here as __post_init__ leaves it when the branch
\* passes none: equal to content
DocIntelOutput(doc_type, content, confidence, metadata) ==
    [doc_type |-> doc_type, content |-> content, extracted_text |-> content,
     confidence_score |-> confidence, metadata |-> metadata]

\* the except clause of process(): every exception of a branch that the
\* branch does not catch itself
DocIntelError ==
    DocIntelOutput("error", "error_text", 0, [NoMetadata EXCEPT !.error = TRUE])

_process_image_based_pdf(local, llm) ==
    IF local = "io_error" THEN DocIntelError          \* open() is outside the try
    ELSE IF llm = "ok"
    THEN DocIntelOutput("image_pdf", "ai_analysis", 70,
             [NoMetadata EXCEPT !.processing_method = "ocr_vision",
                                !.requires_manual_review = TRUE])
    ELSE DocIntelOutput("image_pdf_error", "error_text", 0,
             [NoMetadata EXCEPT !.error = TRUE])

_process_pdf(local, llm) ==
    CASE local = "syntax_error" ->
             DocIntelOutput("invalid_pdf", "error_text", 0, [NoMetadata EXCEPT !.error = TRUE])
      [] local = "io_error" -> DocIntelError
      [] local = "empty" -> _process_image_based_pdf("ok", llm)
      [] OTHER ->
             IF llm = "ok"
             THEN [DocIntelOutput("pdf_document", "ai_analysis", 90,
                       [NoMetadata EXCEPT !.processing_method = "text_extraction"])
                   EXCEPT !.extracted_text = "raw_text"]
             ELSE DocIntelError       \* only PDFSyntaxError is caught in _process_pdf

\* _extract_docx_text catches every exception of the unpacking and returns a
\* diagnostic string as the text; .doc files get a fixed notice as their text
_extract_docx_text(local) ==
    CASE local = "ok" -> "docx_text"
      [] local = "empty" -> ""
      [] OTHER -> "Error extracting DOCX text"

_process_word_document(suffix, local, llm) ==
    LET text_content == IF suffix = ".docx" THEN _extract_docx_text(local)
                        ELSE "not fully implemented"
    IN  IF llm = "ok"
        THEN [DocIntelOutput("word_document", "ai_analysis", 85,
                  [NoMetadata EXCEPT !.processing_method = "document_parsing"])
              EXCEPT !.extracted_text =
                         IF text_content = "" THEN "ai_analysis" ELSE text_content]
        ELSE DocIntelOutput("word_document_error", "error_text", 0,
                 [NoMetadata EXCEPT !.error = TRUE])

_process_image(local, llm, size_kb) ==
    IF local = "ok" /\ llm = "ok"
    THEN DocIntelOutput("image_document", "ai_analysis", 80,
             [NoMetadata EXCEPT !.processing_method = "ai_vision_ocr",
                                !.file_size_kb = size_kb])
    ELSE DocIntelOutput("image_error", "error_text", 0, [NoMetadata EXCEPT !.error = TRUE])

\* a DICOM branch that keeps its normal payload when the LLM call fails
_process_dicom_Silent(llm) ==
    [DocIntelOutput("dicom_image", "ai_analysis", 60,
         [NoMetadata EXCEPT !.processing_method = "metadata_analysis",
                            !.privacy_sensitive = TRUE])
     EXCEPT !.extracted_text = "DICOM medical imaging file"]

_process_dicom(llm) ==
    IF llm = "ok"
    THEN [DocIntelOutput("dicom_image", "ai_analysis", 60,
              [NoMetadata EXCEPT !.processing_method = "metadata_analysis",
                                 !.privacy_sensitive = TRUE])
          EXCEPT !.extracted_text = "DICOM medical imaging file"]
    ELSE DocIntelOutput("dicom_error", "error_text", 0, [NoMetadata EXCEPT !.error = TRUE])

_process_unsupported ==
    DocIntelOutput("unsupported", "unsupported_text", 0, NoMetadata)

Suffixes == {".pdf", ".docx", ".doc", ".jpg", ".png", ".dcm", ".txt"}
LocalOutcomes == {"ok", "empty", "syntax_error", "io_error"}
LLMOutcomes == {"ok", "fail"}
FileSizesKb == {50, 200}

\* which branch calls the LLM at all
DocIntelCallsLLM(suffix, download, local) ==
    /\ download = "ok"
    /\ CASE suffix = ".pdf" -> local \in {"ok", "empty"}
         [] suffix \in {".docx", ".doc"} -> TRUE
         [] suffix \in {".jpg", ".jpeg", ".png", ".tiff", ".tif", ".bmp"} -> local = "ok"
         [] suffix = ".dcm" -> TRUE
         [] OTHER -> FALSE

DocIntelProcess(suffix, download, local, llm, size_kb) ==
    IF download # "ok" THEN DocIntelError
    ELSE CASE suffix = ".pdf" -> _process_pdf(local, llm)
           [] suffix \in {".docx", ".doc"} -> _process_word_document(suffix, local, llm)
           [] suffix \in {".jpg", ".jpeg", ".png", ".tiff", ".tif", ".bmp"} ->
                  _process_image(local, llm, size_kb)
           [] suffix = ".dcm" -> _process_dicom(llm)
           [] OTHER -> _process_unsupported

(***************************************************************************)
(* Step 2: InfoExtractAgent.process.                                       *)
(*                                                                         *)
(* The reply of the LLM is described by what json.loads makes of the       *)
(* cleaned text: "malformed" raises JSONDecodeError, "scalar" is valid     *)
(* JSON that is not a container (42, null: no {...} span is found and the  *)
(* whole text is parsed), "array" is a JSON list, "object" a JSON object.  *)
(***************************************************************************)
ExtractedData(name, policy, date, amount, error) ==
    [claimant_name |-> name, policy_number |-> policy, date_of_incident |-> date,
     claim_amount |-> amount, vehicle_details |-> JNull, error |-> error,
     raw_output |-> IF error.t = "absent" THEN JAbsent ELSE JStr(<< "raw reply" >>)]

\* the fixed object of the except clause
ExtractionFallback ==
    ExtractedData(JNull, JNull, JNull, JNull,
                  JStr(<< "Failed to parse extraction model output" >>))

\* json.loads returned something that is not a dict
NotADict == [not_a_dict |-> TRUE]

\* json.loads returned a list: `in` works on it, .keys() and .get() do not
EmptyList == [not_a_dict |-> TRUE, list |-> TRUE]

IsDict(data) == data \notin {NotADict, EmptyList}

ClaimantNames == {JNull, JStr(<< "Jane Doe" >>), JStr(<< "Unknown" >>)}
PolicyNumbers == {JNull, JStr(<< >>), JStr(<< "PN-", "1001" >>), JStr(<< "AB-", "1001" >>)}
ClaimAmounts == {JNull, JStr(<< >>), JNum(1200), JNum(120000)}

ExtractionDicts ==
    {ExtractedData(nm, pn, JStr(<< "2024-01-05" >>), am, JAbsent) :
        nm \in ClaimantNames, pn \in PolicyNumbers, am \in ClaimAmounts}

ExtractionReplies ==
    {[kind |-> "malformed", data |-> ExtractionFallback],
     [kind |-> "scalar", data |-> ExtractionFallback]}
    \cup {[kind |-> "object", data |-> d] : d \in ExtractionDicts}

\* a parser whose except clause misses JSONDecodeError
InfoExtractProcess_Uncaught(llm) ==
    CASE ~llm.ok -> Raised
      [] llm.reply.kind = "malformed" -> Raised
      [] llm.reply.kind = "scalar" -> NotADict
      [] OTHER -> llm.reply.data

\* llm is the outcome of generate_content: [ok, reply]
InfoExtractProcess(llm) ==
    CASE ~llm.ok -> Raised                       \* the call is outside the try
      [] llm.reply.kind = "malformed" -> ExtractionFallback
      [] llm.reply.kind = "scalar" -> NotADict
      [] OTHER -> llm.reply.data

(***************************************************************************)
(* Step 3: RuleCheckAgent.process.                                         *)
(***************************************************************************)
required_fields == << "claimant_name", "policy_number", "claim_amount" >>

MissingViolation(field) == << "Missing required field", ": ", field >>

AmountViolation(v) ==
    << "Claim amount", " $" >> \o Str(v) \o << " is outside the acceptable range (0, 50000]." >>

PolicyViolation(v) ==
    << "Policy number", " '" >> \o Str(v) \o << "' has an ", "invalid format", "." >>

Rule1(data) ==
    LET miss(f) == IF data[f].t \in {"absent", "null"} THEN << MissingViolation(f) >> ELSE << >>
    IN  miss(required_fields[1]) \o miss(required_fields[2]) \o miss(required_fields[3])

\* a range test that lets a zero amount through
Rule2_ZeroAllowed(data) ==
    LET a == data.claim_amount
    IN  IF a.t = "num" /\ ~(0 <= a.n /\ a.n <= 50000) THEN << AmountViolation(a) >> ELSE << >>

Rule2(data) ==
    LET a == data.claim_amount
    IN  IF a.t = "num" /\ ~(0 < a.n /\ a.n <= 50000) THEN << AmountViolation(a) >> ELSE << >>

Rule3(data) ==
    LET p == data.policy_number
    IN  IF p.t # "absent" /\ Truthy(p) /\ ~(p.t = "str" /\ StartsWith(p.s, << "PN-" >>))
        THEN << PolicyViolation(p) >> ELSE << >>

RuleCheckProcess(data) ==
    LET violations == Rule1(data) \o Rule2(data) \o Rule3(data)
    IN  [is_valid |-> Len(violations) = 0, violations |-> violations, validated_data |-> data]

(***************************************************************************)
(* Step 4: RiskAnalysisAgent.                                              *)
(***************************************************************************)
auto_approve_threshold == 25
siu_referral_threshold_High == 75 + 10      \* a referral threshold of 85
siu_referral_threshold == 75
expedited_threshold_Raised == auto_approve_threshold   \* the auto-approve value used by mistake
expedited_threshold == 15
collaboration_confidence_threshold_Half == 100 \div 2   \* a threshold of 0.5
collaboration_confidence_threshold == 70     \* 0.7, in hundredths

RECURSIVE Sum(_)
Sum(q) == IF q = << >> THEN 0 ELSE Head(q) + Sum(Tail(q))

RECURSIVE Flatten(_)
Flatten(q) == IF q = << >> THEN << >> ELSE Head(q) \o Flatten(Tail(q))

Min(a, b) == IF a < b THEN a ELSE b
Max(a, b) == IF a > b THEN a ELSE b

\* a loop that weights a missing field by 10
ViolationWeight_Light(violation) ==
    IF Contains(violation, << "Missing required field" >>) THEN 10
    ELSE IF Contains(violation, << "Claim amount" >>) THEN 40
    ELSE IF Contains(violation, << "invalid format" >>) THEN 15
    ELSE 0

\* the weight the loop over validation_result.violations gives one message
ViolationWeight(violation) ==
    IF Contains(violation, << "Missing required field" >>) THEN 20
    ELSE IF Contains(violation, << "Claim amount" >>) THEN 40
    ELSE IF Contains(violation, << "invalid format" >>) THEN 15
    ELSE 0

ViolationIndicator(violation) ==
    IF Contains(violation, << "Missing required field" >>) THEN << "Incomplete documentation" >>
    ELSE IF Contains(violation, << "Claim amount" >>) THEN << "Claim amount irregularity" >>
    ELSE << >>

\* process(), lines 63-77
ValidationPenalty(validation) ==
    LET v == validation.violations
    IN  IF validation.is_valid
        THEN [score_adjustment |-> 0, indicators |-> << >>, risk_factors |-> << >>]
        ELSE [score_adjustment |-> 10 + Sum([i \in 1..Len(v) |-> ViolationWeight(v[i])]),
              indicators |-> Flatten([i \in 1..Len(v) |-> ViolationIndicator(v[i])]),
              risk_factors |-> v]

\* float(str(x).replace('$', '').replace(',', '')): ok is FALSE for ValueError
NumericWords == [w \in {"1200", "60000", "120000"} |->
                    CASE w = "1200" -> 1200 [] w = "60000" -> 60000 [] OTHER -> 120000]

ParseFloat(v) ==
    IF v.t = "num" THEN [ok |-> TRUE, value |-> v.n]
    ELSE LET stripped == SelectSeq(Str(v), LAMBDA w : w \notin {"$", ","})
         IN  IF Len(stripped) = 1 /\ stripped[1] \in DOMAIN NumericWords
             THEN [ok |-> TRUE, value |-> NumericWords[stripped[1]]]
             ELSE [ok |-> FALSE, value |-> 0]

_analyze_fraud_patterns(extracted_data) ==
    LET claim_amount == Get(extracted_data, "claim_amount")
        amount == ParseFloat(claim_amount)
    IN  IF ~Truthy(claim_amount)
        THEN [score_adjustment |-> 0, indicators |-> << >>]
        ELSE IF ~amount.ok
        THEN [score_adjustment |-> 10, indicators |-> << "Invalid claim amount format" >>]
        ELSE IF amount.value > 50000
        THEN [score_adjustment |-> 15,
              indicators |-> << "High-value claim requiring enhanced review" >>]
        ELSE IF amount.value > 100000
        THEN [score_adjustment |-> 25,
              indicators |-> << "Very high-value claim - potential inflation" >>]
        ELSE [score_adjustment |-> 0, indicators |-> << >>]

\* one entry per if/elif of _analyze_document_type_risks: <<score, indicators, risk_factors>>
DocTypeBranch(doc_type, metadata) ==
    CASE doc_type = "image_document" ->
             LET size == IF metadata.file_size_kb = -1 THEN 0 ELSE metadata.file_size_kb
                 small == size < 100
                 quality == Lower(metadata.image_quality_assessment)
                 poor == Contains(quality, << "poor" >>) \/ Contains(quality, << "blurry" >>)
             IN  << 10 + (IF small THEN 15 ELSE 0) + (IF poor THEN 20 ELSE 0),
                    (IF small THEN << "Suspiciously small image file size" >> ELSE << >>)
                    \o (IF poor THEN << "Poor image quality may indicate tampering" >> ELSE << >>),
                    << "Image-based document requires enhanced scrutiny" >> >>
      [] doc_type = "image_pdf" ->
             << 15, << "Document may contain handwritten alterations" >>,
                << "Scanned/image-based PDF requires manual review" >> >>
      [] doc_type \in {"word_document", "insurance_word_document"} ->
             << 5 + (IF ~metadata.document_version THEN 10 ELSE 0),
                (IF ~metadata.document_version
                 THEN << "No document version tracking available" >> ELSE << >>),
                << "Digital document format allows easy modification" >> >>
      [] doc_type = "dicom_image" ->
             << 25, << "HIPAA compliance verification required" >>,
                << "Medical imaging requires specialized medical review" >>
                \o (IF metadata.privacy_sensitive
                    THEN << "Contains sensitive medical information" >> ELSE << >>) >>
      [] doc_type = "medical_imaging" ->
             << 20, << >>, << "Medical documentation requires clinical verification" >> >>
      [] doc_type \in {"invalid_pdf", "corrupted_pdf"} ->
             << 40, << "Corrupted or invalid document format" >>,
                << "Document integrity issues detected" >> >>
      [] doc_type = "unsupported" ->
             << 30, << "Unsupported file format submitted" >>,
                << "Non-standard document type raises suspicion" >> >>
      [] doc_type = "error" ->
             << 35, << "Document processing failed" >>,
                << "Technical processing errors require investigation" >> >>
      [] OTHER -> << 0, << >>, << >> >>

_analyze_document_type_risks(doc_type, metadata, confidence_score) ==
    LET low == confidence_score < 70
        branch == DocTypeBranch(doc_type, metadata)
        ocr == metadata.processing_method = "ocr_vision"
        review == metadata.requires_manual_review
        err == metadata.error
    IN  [score_adjustment |->
             (IF low THEN 15 ELSE 0) + branch[1] + (IF ocr THEN 10 ELSE 0)
             + (IF review THEN 15 ELSE 0) + (IF err THEN 25 ELSE 0),
         indicators |-> branch[2] \o (IF err THEN << "Processing error" >> ELSE << >>),
         risk_factors |->
             (IF low THEN << "Low document processing confidence" >> ELSE << >>)
             \o branch[3]
             \o (IF ocr THEN << "OCR-based extraction may miss subtle details" >> ELSE << >>)
             \o (IF review THEN << "Document flagged for mandatory manual review" >> ELSE << >>)]

(***************************************************************************)
(* The reply of the step-4 LLM call is a set of `KEY: value` lines; each   *)
(* line is present or not, and carries its text after strip().             *)
(***************************************************************************)
\* the outcome of one generate_content call: the text, or a failure after the retries
Failed(reply) == [ok |-> FALSE, reply |-> reply]
Answered(reply) == [ok |-> TRUE, reply |-> reply]

NoLine == [present |-> FALSE, text |-> << >>]
Line(text) == [present |-> TRUE, text |-> text]
NoWord == [present |-> FALSE, text |-> ""]

\* text.split(','): the items between the "," words
Split(text) == SelectSeq(text, LAMBDA w : w # ",")

ParseSettlement(text) ==
    IF Contains(Lower(text), << "insufficient" >>) THEN [present |-> FALSE, value |-> None]
    ELSE IF ~(\E i \in 1..Len(text) : text[i] = "-") THEN [present |-> FALSE, value |-> None]
    ELSE IF Len(text) = 3 /\ text[2] = "-"
            /\ text[1] \in DOMAIN NumericWords /\ text[3] \in DOMAIN NumericWords
    THEN [present |-> TRUE,
          value |-> [low |-> NumericWords[text[1]], high |-> NumericWords[text[3]]]]
    ELSE [present |-> TRUE, value |-> None]          \* the bare except

_parse_ai_response(reply) ==
    [fraud_indicators |->
         IF ~reply.fraud_indicators.present THEN [present |-> FALSE, value |-> << >>]
         ELSE [present |-> TRUE,
               value |-> IF Lower(reply.fraud_indicators.text) # << "none" >>
                         THEN Split(reply.fraud_indicators.text) ELSE << >>],
     risk_level |-> reply.risk_level,
     siu_referral |->
         IF ~reply.siu.present THEN [present |-> FALSE, value |-> FALSE]
         ELSE [present |-> TRUE, value |-> StartsWith(Lower(reply.siu.text), << "yes" >>)],
     processing_priority |-> reply.priority,
     settlement_estimate |->
         IF ~reply.settlement.present THEN [present |-> FALSE, value |-> None]
         ELSE ParseSettlement(reply.settlement.text),
     detailed_analysis |-> reply.detailed]

\* results.get('risk_level', 'Medium')
ResultRiskLevel(results) ==
    IF results.risk_level.present THEN results.risk_level.text ELSE "Medium"

\* lines 161-168: the additive bonus of the level the LLM stated
LevelBonus(risk_level) ==
    CASE LowerWord(risk_level) = "critical" -> 40
      [] LowerWord(risk_level) = "high" -> 30
      [] LowerWord(risk_level) = "medium" -> 15
      [] OTHER -> 0

(***************************************************************************)
(* InfoExtractAgent.collaborative_extract: llm is the outcome of its LLM   *)
(* call, [ok, kind, fields]; fields lists the entries of the JSON object   *)
(* in order, each [field, details].                                        *)
(***************************************************************************)
\* an extractor that reports success whatever became of its LLM call
collaborative_extract_AlwaysSuccess(llm) ==
    [collaboration_success |-> TRUE,
     kind |-> IF ~llm.ok \/ llm.kind = "malformed" THEN "scalar" ELSE llm.kind,
     fields |-> llm.fields]

collaborative_extract(llm) ==
    IF ~llm.ok \/ llm.kind = "malformed"
    THEN [collaboration_success |-> FALSE, kind |-> "none", fields |-> << >>]
    ELSE [collaboration_success |-> TRUE, kind |-> llm.kind, fields |-> llm.fields]

critical_fields == << "claim_amount", "date_of_incident", "claimant_name", "policy_number" >>

IsMissing(value) == ~Truthy(value) \/ value = JStr(<< "N/A" >>) \/ value.t = "null"

IsUnclear(value) ==
    /\ ~IsMissing(value)
    /\ value.t = "str"
    /\ (Contains(Lower(value.s), << "unclear" >>) \/ Contains(Lower(value.s), << "unknown" >>))

\* the decision part of _evaluate_collaboration_need (lines 403-431)
_evaluate_collaboration_need(extracted_data, results, has_doc, has_agent) ==
    LET missing_fields == SelectSeq(critical_fields,
                              LAMBDA f : IsMissing(Get(extracted_data, f)))
        unclear_fields == SelectSeq(critical_fields,
                              LAMBDA f : IsUnclear(Get(extracted_data, f)))
        analysis == IF results.detailed_analysis.present
                    THEN results.detailed_analysis.text ELSE << >>
        confidence_indicators ==
            << Len(missing_fields) > 0,
               Len(unclear_fields) > 0,
               LowerWord(ResultRiskLevel(results)) = "medium",
               Contains(Lower(analysis), << "insufficient" >>) >>
        k == Cardinality({i \in 1..4 : confidence_indicators[i]})
        confidence_score == 100 - (100 * k) \div Len(confidence_indicators)
    IN  IF ~has_agent \/ ~has_doc
        THEN [invoke |-> FALSE, focus_areas |-> << >>, confidence_score |-> 100]
        ELSE [invoke |-> confidence_score < collaboration_confidence_threshold,
              focus_areas |-> IF missing_fields \o unclear_fields # << >>
                              THEN missing_fields \o unclear_fields
                              ELSE << "claim_details", "incident_circumstances",
                                      "claimant_history" >>,
              confidence_score |-> confidence_score]

\* one iteration of the loop of _reassess_with_collaboration (lines 497-522)
FieldRaises(details) ==
    details.is_dict /\ details.confidence.t \notin {"str", "absent"}

FieldAdjustment(original_data, field, details) ==
    IF ~details.is_dict THEN 0
    ELSE LET confidence == IF details.confidence.t = "absent"
                           THEN << "Low" >> ELSE details.confidence.s
             value == details.value
         IN  (Len(details.red_flags) * 10)
             + (IF Lower(confidence) = << "low" >> THEN 5 ELSE 0)
             + (IF Truthy(value) /\ Get(original_data, field) # value
                   /\ ~Truthy(Get(original_data, field))
                   /\ field \in {"claim_amount", "policy_number"}
                THEN -10 ELSE 0)

_reassess_with_collaboration(original_data, collaboration_data) ==
    LET f == collaboration_data.fields
    IN  IF ~collaboration_data.collaboration_success
        THEN [raised |-> FALSE, risk_adjustment |-> 5,
              new_indicators |-> << "Collaboration extraction failed" >>]
        ELSE IF collaboration_data.kind # "object"
                \/ \E i \in 1..Len(f) : FieldRaises(f[i].details)
        THEN [raised |-> TRUE, risk_adjustment |-> 0, new_indicators |-> << >>]
        ELSE [raised |-> FALSE,
              risk_adjustment |->
                  Max(-20, Min(30, Sum([i \in 1..Len(f) |->
                      FieldAdjustment(original_data, f[i].field, f[i].details)]))),
              new_indicators |->
                  Flatten([i \in 1..Len(f) |->
                      IF f[i].details.is_dict THEN f[i].details.red_flags ELSE << >>])]

(***************************************************************************)
(* RiskAnalysisAgent.process.  llm is the outcome of the step-4 call       *)
(* ([ok, reply]; ok is FALSE when generate_content raised after its        *)
(* retries), collab_llm the outcome of the LLM call of the collaboration.  *)
(***************************************************************************)
FinalRiskLevel(final_score) ==
    IF final_score >= 85 THEN "Critical"
    ELSE IF final_score >= 70 THEN "High"
    ELSE IF final_score >= 40 THEN "Medium"
    ELSE "Low"

\* lines 203-236: everything after the try/except
Finalize(risk_score, risk_factors, analysis_details, fraud_indicators, siu_referral_needed, processing_priority, settlement_estimate) ==
    LET final_score == Min(risk_score, 100)
    IN  [risk_score |-> final_score,
         risk_level |-> FinalRiskLevel(final_score),
         risk_factors |-> risk_factors,
         analysis_details |-> analysis_details,
         fraud_indicators |-> fraud_indicators,
         siu_referral |-> final_score >= siu_referral_threshold \/ siu_referral_needed,
         auto_approve_eligible |->
             final_score <= auto_approve_threshold /\ fraud_indicators = << >>,
         processing_priority |->
             IF final_score <= expedited_threshold THEN "Expedited"
             ELSE IF final_score >= siu_referral_threshold THEN "Enhanced_Review"
             ELSE processing_priority,
         estimated_settlement_range |-> settlement_estimate]

\* an except clause that refers claims by the Medium threshold
Fallback_WrongThreshold(risk_score, risk_factors, fraud_indicators) ==
    Finalize(risk_score, risk_factors, << "AI analysis failed" >>, fraud_indicators,
             risk_score > 30, "Standard", None)

\* the except clause of process (lines 195-201), entered with the score and
\* the indicators accumulated so far
Fallback(risk_score, risk_factors, fraud_indicators) ==
    Finalize(risk_score, risk_factors, << "AI analysis failed" >>, fraud_indicators,
             risk_score > siu_referral_threshold, "Standard", None)

RiskProcess(extracted_data, validation_result_, doc, has_agent, llm, collab_llm) ==
    LET has_doc == doc # None
        doc_type == IF has_doc THEN doc.doc_type ELSE "unknown"
        metadata == IF has_doc THEN doc.metadata ELSE NoMetadata
        confidence == IF has_doc THEN doc.confidence_score ELSE 100
        penalty == ValidationPenalty(validation_result_)
        fraud == _analyze_fraud_patterns(extracted_data)
        doc_risk == _analyze_document_type_risks(doc_type, metadata, confidence)
        rule_score == penalty.score_adjustment + fraud.score_adjustment
                      + doc_risk.score_adjustment
        risk_factors == penalty.risk_factors \o doc_risk.risk_factors
        indicators0 == penalty.indicators \o fraud.indicators \o doc_risk.indicators
        results == _parse_ai_response(llm.reply)
        indicators1 == indicators0 \o results.fraud_indicators.value
        score1 == rule_score + LevelBonus(ResultRiskLevel(results))
        analysis == IF results.detailed_analysis.present
                    THEN results.detailed_analysis.text ELSE << "ai_response" >>
        priority == IF results.processing_priority.present
                    THEN results.processing_priority.text ELSE "Standard"
        need == _evaluate_collaboration_need(extracted_data, results, has_doc, has_agent)
        collaboration_data == collaborative_extract(collab_llm)
        reassess == _reassess_with_collaboration(extracted_data, collaboration_data)
        trace(invoked, raised, adjustment) ==
            [llm_ok |-> llm.ok,
             llm_siu |-> llm.ok /\ results.siu_referral.value,
             llm_priority |-> IF llm.ok THEN priority ELSE "",
             llm_level |-> IF llm.ok THEN results.risk_level ELSE NoWord,
             llm_analysis |-> IF llm.ok THEN results.detailed_analysis ELSE NoLine,
             has_agent |-> has_agent,
             validation_penalty |-> penalty.score_adjustment,
             fraud_adjustment |-> fraud.score_adjustment,
             rule_score |-> rule_score,
             llm_score |-> IF llm.ok THEN score1 ELSE rule_score,
             collaboration_reply |-> IF invoked THEN collab_llm ELSE None,
             collaboration_invoked |-> invoked,
             collaboration_raised |-> raised,
             risk_adjustment |-> adjustment]
    IN  IF ~llm.ok
        THEN [output |-> Fallback(rule_score, risk_factors, indicators0),
              trace |-> trace(FALSE, FALSE, 0)]
        ELSE IF ~need.invoke
        THEN [output |-> Finalize(score1, risk_factors, analysis, indicators1,
                                  results.siu_referral.value, priority,
                                  results.settlement_estimate.value),
              trace |-> trace(FALSE, FALSE, 0)]
        ELSE IF reassess.raised
        THEN [output |-> Fallback(score1, risk_factors, indicators1),
              trace |-> trace(TRUE, TRUE, 0)]
        ELSE [output |-> Finalize(score1 + reassess.risk_adjustment, risk_factors,
                                  analysis \o << "COLLABORATIVE ANALYSIS" >>,
                                  indicators1 \o reassess.new_indicators,
                                  results.siu_referral.value, priority,
                                  results.settlement_estimate.value),
              trace |-> trace(TRUE, FALSE, reassess.risk_adjustment)]

(***************************************************************************)
(* Step 5: ReportGenAgent.                                                 *)
(***************************************************************************)
\* the fixed checklist of a recommendation: its length and its language
NextActions(recommendation, zh) ==
    LET n == IF recommendation \in {"siu_referral", "manual_review"} THEN 4 ELSE 3
    IN  [i \in 1..n |-> << recommendation, IF zh THEN "zh" ELSE "en", i >>]

\* the same chain with the SIU test ahead of the auto-approve test
_determine_recommendation_SiuFirst(risk_analysis, lang) ==
    LET recommendation ==
            IF risk_analysis.siu_referral THEN "siu_referral"
            ELSE IF risk_analysis.auto_approve_eligible THEN "expedited_approve"
            ELSE IF risk_analysis.risk_score >= 70 THEN "deny"
            ELSE IF risk_analysis.risk_score >= 40 THEN "manual_review"
            ELSE "approve"
    IN  << recommendation, NextActions(recommendation, lang = "zh") >>

_determine_recommendation(risk_analysis, lang) ==
    LET recommendation ==
            IF risk_analysis.auto_approve_eligible THEN "expedited_approve"
            ELSE IF risk_analysis.siu_referral THEN "siu_referral"
            ELSE IF risk_analysis.risk_score >= 70 THEN "deny"
            ELSE IF risk_analysis.risk_score >= 40 THEN "manual_review"
            ELSE "approve"
    IN  << recommendation, NextActions(recommendation, lang = "zh") >>

\* safe_format(extracted_data.get('claim_amount', 0), '.2f') of
\* _generate_extracted_summary
safe_format(value, lang) ==
    CASE value.t = "absent" -> << "0.00" >>
      [] value.t = "null" -> IF lang = "en" THEN << "N/A" >> ELSE << "none-zh" >>
      [] value.t = "num" -> << ToString(value.n), ".00" >>
      [] OTHER -> value.s

\* float(text) of the CONFIDENCE line, in hundredths; ok is FALSE for ValueError
ConfidenceWords == [w \in {"0.95", "0.5", "7"} |->
                       CASE w = "0.95" -> 95 [] w = "0.5" -> 50 [] OTHER -> 700]

ParseConfidence(text) ==
    IF text \in DOMAIN ConfidenceWords THEN ConfidenceWords[text] ELSE 80

\* ReportGenAgent._parse_ai_response, applied to the lines of the reply
ParseReportReply(reply) ==
    [executive_summary |-> reply.executive_summary,
     detailed_reasoning |-> reply.detailed_reasoning,
     confidence |-> IF reply.confidence.present
                    THEN [present |-> TRUE, value |-> ParseConfidence(reply.confidence.text)]
                    ELSE [present |-> FALSE, value |-> 0]]

\* lines 76-80: the narrative taken from a parsed reply
ParsedNarrative(parsed) ==
    [confidence_score |->
         IF parsed.confidence.present THEN parsed.confidence.value ELSE 80,
     executive_summary |->
         IF parsed.executive_summary.present THEN parsed.executive_summary.text ELSE << >>,
     detailed_reasoning |->
         IF parsed.detailed_reasoning.present
         THEN parsed.detailed_reasoning.text ELSE << "ai_response" >>,
     compliance_notes |-> << >>]

\* lines 82-88: the fixed narrative of the except clause
FallbackNarrative(risk_analysis) ==
    [confidence_score |-> 60,
     executive_summary |-> << "Automated analysis completed with risk score",
                              ToString(risk_analysis.risk_score) >>,
     detailed_reasoning |-> << "Analysis error",
                               "Recommendation based on rule-based assessment." >>,
     compliance_notes |-> << "Manual review recommended due to processing limitations." >>]

\* a try/except that does not catch the failure of generate_content
Narrative_Uncaught(risk_analysis, llm) ==
    IF llm.ok THEN ParsedNarrative(ParseReportReply(llm.reply)) ELSE Raised

\* lines 70-88: the try/except around the narrative LLM call
Narrative(risk_analysis, llm) ==
    IF llm.ok THEN ParsedNarrative(ParseReportReply(llm.reply))
    ELSE FallbackNarrative(risk_analysis)

ReportProcess(risk_analysis, extracted_data, lang, llm) ==
    LET rec == _determine_recommendation(risk_analysis, lang)
        narrative == Narrative(risk_analysis, llm)
    IN  IF narrative = Raised THEN Raised
        ELSE [report_content |->
                  [zh |-> lang = "zh",
                   executive_summary |-> narrative.executive_summary,
                   detailed_reasoning |-> narrative.detailed_reasoning,
                   compliance_notes |-> narrative.compliance_notes,
                   claim_amount |-> safe_format(extracted_data.claim_amount, lang)],
              recommendation |-> rec[1],
              confidence_score |-> narrative.confidence_score,
              processing_priority |-> risk_analysis.processing_priority,
              investigation_required |-> risk_analysis.siu_referral,
              next_actions |-> rec[2]]

(***************************************************************************)
(* What the LLM may answer at each call.  The Pipeline sets are offered to *)
(* a whole run, the larger Scorer sets to the Risk Scorer on its own.      *)
(***************************************************************************)
Languages == {"zh", "en", "zhongwen"}      \* "zhongwen": the default literal of run()

Clean == ExtractedData(JStr(<< "Jane Doe" >>), JStr(<< "PN-", "1001" >>),
                       JStr(<< "2024-01-05" >>), JNum(1200), JAbsent)
Blank == ExtractedData(JStr(<< "Jane Doe" >>), JStr(<< >>),
                       JStr(<< "2024-01-05" >>), JStr(<< >>), JAbsent)
Inflated == ExtractedData(JStr(<< "Unknown" >>), JStr(<< "AB-", "1001" >>),
                          JStr(<< "2024-01-05" >>), JNum(120000), JAbsent)

PipelineExtractionReplies ==
    {[kind |-> "malformed", data |-> ExtractionFallback],
     [kind |-> "scalar", data |-> ExtractionFallback]}
    \cup {[kind |-> "object", data |-> d] : d \in {Clean, Blank, Inflated}}

RiskReply(level, siu, priority, indicators, settlement, detailed) ==
    [risk_level |-> level, siu |-> siu, priority |-> priority,
     fraud_indicators |-> indicators, settlement |-> settlement, detailed |-> detailed]

EmptyRiskReply == RiskReply(NoWord, NoLine, NoWord, NoLine, NoLine, NoLine)

\* the ADDITIONAL_FRAUD_INDICATORS lines with 1..n items
RECURSIVE IndicatorItems(_)
IndicatorItems(n) ==
    IF n = 1 THEN << "Staged accident" >> ELSE IndicatorItems(n - 1) \o << ",", "Padding" >>

IndicatorLines(n) == {NoLine, Line(<< "None" >>)} \cup {Line(IndicatorItems(i)) : i \in 1..n}

PipelineRiskReplies ==
    {Failed(EmptyRiskReply),
     Answered(RiskReply([present |-> TRUE, text |-> "Low"], Line(<< "No" >>), NoWord,
                        Line(<< "None" >>), NoLine, Line(<< "consistent" >>))),
     Answered(RiskReply([present |-> TRUE, text |-> "Low"], Line(<< "Yes", " - staged" >>),
                        [present |-> TRUE, text |-> "Standard"], NoLine,
                        Line(<< "1200", "-", "60000" >>),
                        Line(<< "Insufficient", " documentation" >>))),
     Answered(RiskReply(NoWord, NoLine, [present |-> TRUE, text |-> "Urgent"],
                        Line(IndicatorItems(1)), Line(<< "Insufficient", " data" >>),
                        NoLine)),
     Answered(RiskReply([present |-> TRUE, text |-> "Critical"], Line(<< "No" >>),
                        [present |-> TRUE, text |-> "Expedited"], Line(<< "None" >>),
                        NoLine, Line(<< "consistent" >>)))}

ScorerRiskReplies ==
    {Failed(EmptyRiskReply)}
    \cup {Answered(RiskReply(level, siu, priority, indicators, NoLine, detailed)) :
            level \in {NoWord} \cup {[present |-> TRUE, text |-> w] :
                                        w \in {"Low", "Medium", "High", "Critical"}},
            siu \in {Line(<< "Yes", " - staged" >>), Line(<< "No" >>)},
            priority \in {NoWord, [present |-> TRUE, text |-> "Urgent"]},
            indicators \in IndicatorLines(MaxIndicators) \ {NoLine},
            detailed \in {Line(<< "consistent" >>), Line(<< "Insufficient", " data" >>)}}
    \cup {Answered(RiskReply([present |-> TRUE, text |-> "Low"], NoLine, NoWord, NoLine,
                             settlement, NoLine)) :
            settlement \in {Line(<< "1200", "-", "60000" >>), Line(<< "1200", "-", "n/a" >>),
                            Line(<< "Insufficient", " data" >>)}}

\* the entries of a collaboration reply
Details(value, confidence, n) ==
    [is_dict |-> TRUE, value |-> value, confidence |-> confidence,
     red_flags |-> [i \in 1..n |-> "Inconsistent dates"]]

NewValue(field) ==
    IF field = "claim_amount" THEN JNum(1200) ELSE JStr(<< "PN-", "1001" >>)

DetailsOf(field, n) ==
    {Details(NewValue(field), JStr(<< "High" >>), 0),
     Details(NewValue(field), JStr(<< "Low" >>), n),
     Details(JNull, JStr(<< "Medium" >>), n),
     Details(NewValue(field), JNull, 0)}

CollabObject(fields) == [ok |-> TRUE, kind |-> "object", fields |-> fields]

NoCollabCall == [ok |-> FALSE, kind |-> "malformed", fields |-> << >>]

ScorerCollabReplies ==
    {NoCollabCall,
     [ok |-> TRUE, kind |-> "malformed", fields |-> << >>],
     [ok |-> TRUE, kind |-> "scalar", fields |-> << >>]}
    \cup {CollabObject(<< [field |-> "claim_amount", details |-> d] >>) :
            d \in DetailsOf("claim_amount", MaxRedFlags)}
    \cup {CollabObject(<< [field |-> "claim_amount", details |-> d1],
                          [field |-> "policy_number", details |-> d2] >>) :
            d1 \in {Details(NewValue("claim_amount"), JStr(<< "High" >>), 0),
                    Details(NewValue("claim_amount"), JStr(<< "Low" >>), MaxRedFlags)},
            d2 \in {Details(NewValue("policy_number"), JStr(<< "High" >>), 0),
                    Details(NewValue("policy_number"), JStr(<< "Low" >>), MaxRedFlags)}}

PipelineCollabReplies ==
    {NoCollabCall,
     CollabObject(<< [field |-> "claim_amount",
                      details |-> Details(JNum(1200), JStr(<< "High" >>), 0)],
                     [field |-> "policy_number",
                      details |-> Details(JStr(<< "PN-", "1001" >>), JStr(<< "High" >>), 0)] >>),
     CollabObject(<< [field |-> "claim_amount",
                      details |-> Details(JNum(1200), JNull, 0)] >>)}

ReportReply(summary, reasoning, confidence) ==
    [executive_summary |-> summary, detailed_reasoning |-> reasoning,
     confidence |-> confidence]

ReportReplies ==
    {Failed(ReportReply(NoLine, NoLine, NoWord)),
     Answered(ReportReply(Line(<< "summary" >>), Line(<< "reasoning" >>),
                          [present |-> TRUE, text |-> "0.95"])),
     Answered(ReportReply(NoLine, NoLine, [present |-> TRUE, text |-> "high"])),
     Answered(ReportReply(NoLine, Line(<< "reasoning" >>), NoWord))}

(***************************************************************************)
(* ClaimProcessingPipeline.run: one action per step.  A step that raises   *)
(* ends the run at "raised": run has no try/except.                        *)
(***************************************************************************)
Call(stage, ok, kind) == [stage |-> stage, ok |-> ok, kind |-> kind]

\* results[stage] = entry, as run_for_demo records it; run() keeps no such map
Recorded(stage, entry) == IF mode = "demo" THEN demo_results @@ (stage :> entry) ELSE demo_results

\* list(extracted_data.keys())
Keys(data) == {f \in DOMAIN data : data[f].t # "absent"}

Init ==
    /\ pc = "doc_intel"
    /\ language \in Languages
    /\ mode \in {"run", "demo"}
    /\ doc_intel_output = None
    /\ extraction_output = None
    /\ validation_result = None
    /\ risk_analysis_output = None
    /\ final_report = None
    /\ llm_log = << >>
    /\ stages = << >>
    /\ risk_trace = None
    /\ demo_results = << >>
    /\ report_path = None
    /\ doc_request = None
    /\ attempts = << >>
    /\ steps_status = None

\* step 1 (run lines 56-61, run_for_demo lines 114-120)
RunDocIntel ==
    /\ pc = "doc_intel"
    /\ \E suffix \in Suffixes, download \in {"ok", "fail"}, local \in LocalOutcomes,
          llm \in LLMOutcomes, size_kb \in FileSizesKb :
          /\ doc_intel_output' = DocIntelProcess(suffix, download, local, llm, size_kb)
          /\ llm_log' = IF DocIntelCallsLLM(suffix, download, local)
                        THEN Append(llm_log, Call("doc_intel", llm = "ok", "text")) ELSE llm_log
    /\ demo_results' = Recorded("doc_intel",
                      [success |-> TRUE, doc_type |-> doc_intel_output'.doc_type])
    /\ stages' = Append(stages, "doc_intel")
    /\ pc' = "info_extract"
    /\ UNCHANGED <<language, extraction_output, validation_result, risk_analysis_output,
                   final_report, risk_trace, mode, report_path, doc_request, attempts,
                   steps_status>>

\* an orchestrator that replaces a failed extraction by the parse-failure object
InfoExtractStep_Recovers(replies) ==
    /\ pc = "info_extract"
    /\ stages' = Append(stages, "info_extract")
    /\ \E llm \in {Failed([kind |-> "none", data |-> ExtractionFallback])}
                   \cup {Answered(reply) : reply \in replies} :
          LET data == InfoExtractProcess(llm)
              returned == data # Raised /\ IsDict(data)
          IN  /\ llm_log' = Append(llm_log, Call("info_extract", llm.ok, llm.reply.kind))
              /\ extraction_output' = IF returned THEN data ELSE ExtractionFallback
              /\ pc' = "rule_check"
              /\ demo_results' = Recorded("info_extract",
                                     [success |-> returned,
                                      extracted_fields |-> Keys(extraction_output')])
    /\ UNCHANGED <<language, doc_intel_output, validation_result, risk_analysis_output,
                   final_report, risk_trace, mode, report_path, doc_request, attempts,
                   steps_status>>

\* step 2 (run lines 63-67, run_for_demo lines 122-127): generate_content is
\* outside the try of process, and both entry points call extracted_data.keys()
\* on whatever json.loads returned
InfoExtractStep(replies) ==
    /\ pc = "info_extract"
    /\ stages' = Append(stages, "info_extract")
    /\ \E llm \in {Failed([kind |-> "none", data |-> ExtractionFallback])}
                   \cup {Answered(reply) : reply \in replies} :
          LET data == InfoExtractProcess(llm)
              returned == data # Raised /\ IsDict(data)
          IN  /\ llm_log' = Append(llm_log, Call("info_extract", llm.ok, llm.reply.kind))
              /\ extraction_output' = IF data = Raised THEN extraction_output ELSE data
              /\ pc' = IF returned THEN "rule_check" ELSE "raised"
              /\ demo_results' = IF returned
                            THEN Recorded("info_extract",
                                     [success |-> TRUE, extracted_fields |-> Keys(data)])
                            ELSE demo_results
    /\ UNCHANGED <<language, doc_intel_output, validation_result, risk_analysis_output,
                   final_report, risk_trace, mode, report_path, doc_request, attempts,
                   steps_status>>

RunInfoExtract == InfoExtractStep(PipelineExtractionReplies)

\* a step 3 that does not hand over to step 4
RunRuleCheck_Repeats ==
    /\ pc = "rule_check"
    /\ validation_result' = RuleCheckProcess(extraction_output)
    /\ demo_results' = Recorded("rule_check",
                      [success |-> validation_result'.is_valid,
                       violations |-> Len(validation_result'.violations)])
    /\ stages' = Append(stages, "rule_check")
    /\ pc' = "rule_check"
    /\ UNCHANGED <<language, doc_intel_output, extraction_output, risk_analysis_output,
                   final_report, llm_log, risk_trace, mode, report_path, doc_request,
                   attempts, steps_status>>

\* step 3 (run lines 69-74, run_for_demo lines 129-134)
RunRuleCheck ==
    /\ pc = "rule_check"
    /\ validation_result' = RuleCheckProcess(extraction_output)
    /\ demo_results' = Recorded("rule_check",
                      [success |-> validation_result'.is_valid,
                       violations |-> Len(validation_result'.violations)])
    /\ stages' = Append(stages, "rule_check")
    /\ pc' = "risk_analysis"
    /\ UNCHANGED <<language, doc_intel_output, extraction_output, risk_analysis_output,
                   final_report, llm_log, risk_trace, mode, report_path, doc_request,
                   attempts, steps_status>>

\* step 4 (run lines 76-85, run_for_demo lines 136-147); the collaboration call is
\* made only when process asks for it.  RiskAnalysisOutput has no field
\* collaboration_used, so the getattr of line 146 gives its default.
RiskAnalysisStep(replies, collab_replies, agent_refs) ==
    /\ pc = "risk_analysis"
    /\ \E llm \in replies, has_agent \in agent_refs :
          LET need == /\ llm.ok
                      /\ _evaluate_collaboration_need(extraction_output,
                             _parse_ai_response(llm.reply), doc_intel_output # None,
                             has_agent).invoke
          IN  \E collab_llm \in (IF need THEN collab_replies ELSE {NoCollabCall}) :
                 LET r == RiskProcess(extraction_output, validation_result,
                                      doc_intel_output, has_agent, llm, collab_llm)
                 IN  /\ risk_analysis_output' =
                            IF r = Raised THEN risk_analysis_output ELSE r.output
                     /\ risk_trace' = IF r = Raised THEN risk_trace ELSE r.trace
                     /\ pc' = IF r = Raised THEN "raised" ELSE "report_gen"
                     /\ demo_results' = IF r = Raised THEN demo_results
                                   ELSE Recorded("risk_analysis",
                                            [success |-> TRUE,
                                             risk_score |-> r.output.risk_score,
                                             collaboration_used |-> FALSE])
                     /\ llm_log' = llm_log \o << Call("risk_analysis", llm.ok, "text") >>
                                   \o (IF need
                                       THEN << Call("collaborative_extract", collab_llm.ok,
                                                    collab_llm.kind) >>
                                       ELSE << >>)
    /\ stages' = Append(stages, "risk_analysis")
    /\ UNCHANGED <<language, doc_intel_output, extraction_output, validation_result,
                   final_report, mode, report_path, doc_request, attempts, steps_status>>

\* a step 4 that is run again once a re-query has answered
RunRiskAnalysis_Reentrant ==
    \/ RiskAnalysisStep(PipelineRiskReplies, PipelineCollabReplies, {TRUE})
    \/ /\ pc = "report_gen"
       /\ risk_trace.collaboration_invoked
       /\ pc' = "risk_analysis"
       /\ UNCHANGED <<language, doc_intel_output, extraction_output, validation_result,
                      risk_analysis_output, final_report, llm_log, stages, risk_trace, mode,
                      demo_results, report_path, doc_request, attempts, steps_status>>

RunRiskAnalysis == RiskAnalysisStep(PipelineRiskReplies, PipelineCollabReplies, {TRUE})

\* step 5 (run lines 87-94, run_for_demo lines 149-162); run_for_demo saves the
\* report once process has returned
RunReportGen ==
    /\ pc = "report_gen"
    /\ \E llm \in ReportReplies :
          LET r == ReportProcess(risk_analysis_output, extraction_output, language, llm)
              saved == mode = "demo" /\ r # Raised
          IN  /\ final_report' = IF r = Raised THEN final_report ELSE r
              /\ pc' = IF r = Raised THEN "raised" ELSE "done"
              /\ report_path' = IF saved THEN "report_path" ELSE report_path
              /\ demo_results' = IF saved
                            THEN Recorded("report_gen",
                                     [success |-> TRUE,
                                      recommendation |-> r.recommendation,
                                      confidence |-> r.confidence_score,
                                      report_path |-> "report_path"])
                            ELSE demo_results
              /\ llm_log' = Append(llm_log, Call("report_gen", llm.ok, "text"))
    /\ stages' = Append(stages, "report_gen")
    /\ UNCHANGED <<language, doc_intel_output, extraction_output, validation_result,
                   risk_analysis_output, risk_trace, mode, doc_request, attempts,
                   steps_status>>

Next == RunDocIntel \/ RunInfoExtract \/ RunRuleCheck \/ RunRiskAnalysis \/ RunReportGen

Spec == Init /\ [][Next]_vars

(***************************************************************************)
(* The Risk Scorer on its own: RiskAnalysisAgent.process applied to every  *)
(* document payload step 1 can produce and every extraction of             *)
(* ExtractionDicts (or the parse-failure object), validated by step 3.     *)
(***************************************************************************)
DocPayloads ==
    {DocIntelProcess(suffix, "ok", "ok", llm, 200) :
        suffix \in {".pdf", ".docx", ".jpg"}, llm \in LLMOutcomes}

InitScorer ==
    /\ pc = "risk_analysis"
    /\ language \in {"en"}
    /\ mode = "run"
    /\ doc_intel_output \in DocPayloads
    /\ extraction_output \in ExtractionDicts \cup {ExtractionFallback}
    /\ validation_result = RuleCheckProcess(extraction_output)
    /\ risk_analysis_output = None
    /\ final_report = None
    /\ llm_log = << >>
    /\ stages = << "doc_intel", "info_extract", "rule_check" >>
    /\ risk_trace = None
    /\ demo_results = << >>
    /\ report_path = None
    /\ doc_request = None
    /\ attempts = << >>
    /\ steps_status = None

ScoreRisk == RiskAnalysisStep(ScorerRiskReplies, ScorerCollabReplies, {TRUE})

NextScorer == ScoreRisk

SpecScorer == InitScorer /\ [][NextScorer]_vars

(***************************************************************************)
(* The Text Extractor on its own: DocIntelAgent.process applied to one     *)
(* document, described by its suffix and by how the download, the local    *)
(* parsing and the LLM call turn out.                                      *)
(***************************************************************************)
DocRequests ==
    [suffix : Suffixes, download : {"ok", "fail"}, local : LocalOutcomes,
     llm : LLMOutcomes, size_kb : FileSizesKb]

InitDoc ==
    /\ pc = "doc_intel"
    /\ language \in {"en"}
    /\ mode = "run"
    /\ doc_request \in DocRequests
    /\ doc_intel_output = None
    /\ extraction_output = None
    /\ validation_result = None
    /\ risk_analysis_output = None
    /\ final_report = None
    /\ llm_log = << >>
    /\ stages = << >>
    /\ risk_trace = None
    /\ demo_results = << >>
    /\ report_path = None
    /\ attempts = << >>
    /\ steps_status = None

ProcessDocument ==
    /\ pc = "doc_intel"
    /\ doc_request # None
    /\ doc_intel_output' = DocIntelProcess(doc_request.suffix, doc_request.download,
                               doc_request.local, doc_request.llm, doc_request.size_kb)
    /\ llm_log' = IF DocIntelCallsLLM(doc_request.suffix, doc_request.download,
                                      doc_request.local)
                  THEN Append(llm_log, Call("doc_intel", doc_request.llm = "ok", "text"))
                  ELSE llm_log
    /\ stages' = Append(stages, "doc_intel")
    /\ pc' = "info_extract"
    /\ UNCHANGED <<language, extraction_output, validation_result, risk_analysis_output,
                   final_report, risk_trace, mode, demo_results, report_path, doc_request,
                   attempts, steps_status>>

NextDoc == ProcessDocument

SpecDoc == InitDoc /\ [][NextDoc]_vars

(***************************************************************************)
(* The Rule Validator followed by the Risk Scorer: steps 3 and 4 applied   *)
(* to extractions whose claim amount and policy number take the boundary   *)
(* values of the rules, with and without a document payload and an         *)
(* extractor reference.                                                    *)
(***************************************************************************)
RulePolicyNumbers ==
    {JAbsent, JNull, JStr(<< >>), JStr(<< "PN-", "1001" >>), JStr(<< "AB-", "1001" >>),
     JStr(<< "see ", "Claim amount", " form" >>), JNum(1001)}

RuleClaimAmounts ==
    {JNull, JStr(<< >>), JStr(<< "1200" >>), JNum(0 - 5), JNum(0), JNum(1), JNum(50000),
     JNum(50001), JNum(120000)}

RuleInputs ==
    {ExtractedData(nm, pn, JStr(<< "2024-01-05" >>), am, JAbsent) :
        nm \in ClaimantNames, pn \in RulePolicyNumbers, am \in RuleClaimAmounts}

RulesRiskReplies ==
    {Failed(EmptyRiskReply)}
    \cup {Answered(RiskReply(level, NoLine, NoWord, NoLine, NoLine, detailed)) :
            level \in {NoWord} \cup {[present |-> TRUE, text |-> w] :
                                        w \in {"Low", "Medium", "High"}},
            detailed \in {NoLine, Line(<< "consistent" >>),
                          Line(<< "Insufficient", " data" >>)}}

RulesCollabReplies ==
    {NoCollabCall,
     CollabObject(<< [field |-> "claim_amount",
                      details |-> Details(JNum(1200), JStr(<< "Low" >>), MaxRedFlags)] >>)}

InitRules ==
    /\ pc = "rule_check"
    /\ language \in {"en"}
    /\ mode = "run"
    /\ doc_intel_output \in {None, DocIntelProcess(".pdf", "ok", "ok", "ok", 200)}
    /\ extraction_output \in RuleInputs
    /\ validation_result = None
    /\ risk_analysis_output = None
    /\ final_report = None
    /\ llm_log = << >>
    /\ stages = << "doc_intel", "info_extract" >>
    /\ risk_trace = None
    /\ demo_results = << >>
    /\ report_path = None
    /\ doc_request = None
    /\ attempts = << >>
    /\ steps_status = None

\* process(extraction_output, validation_result, doc_intel_output=...,
\* info_extract_agent=...): both keyword arguments default to None
ScoreValidated == RiskAnalysisStep(RulesRiskReplies, RulesCollabReplies, BOOLEAN)

NextRules == RunRuleCheck \/ ScoreValidated

SpecRules == InitRules /\ [][NextRules]_vars

(***************************************************************************)
(* GeminiClient.generate_content under its tenacity decorator: every       *)
(* exception of the body is retried, stop_after_attempt(3) ends the loop.  *)
(* attempts lists the outcome of each execution of the body.               *)
(***************************************************************************)
stop_after_attempt_Four == 3 + 1      \* one attempt more
stop_after_attempt == 3

\* what self.model.generate_content and response.text do in one attempt
ModelOutcomes == {"text", "empty", "blocked", "region", "quota", "timeout"}

\* the body, lines 67-94: the text, or a RuntimeError wrapping the failure
AttemptBody(outcome) ==
    CASE outcome = "text" -> [ok |-> TRUE, value |-> "response.text"]
      [] outcome = "empty" ->
            [ok |-> FALSE, value |-> "RuntimeError: call failed: empty response"]
      [] outcome = "region" ->
            [ok |-> FALSE, value |-> "RuntimeError: location restriction"]
      [] OTHER -> [ok |-> FALSE, value |-> "RuntimeError: call failed"]

InitGemini ==
    /\ pc = "gemini_attempt"
    /\ language \in {"en"}
    /\ mode = "gemini"
    /\ attempts = << >>
    /\ doc_intel_output = None
    /\ extraction_output = None
    /\ validation_result = None
    /\ risk_analysis_output = None
    /\ final_report = None
    /\ llm_log = << >>
    /\ stages = << >>
    /\ risk_trace = None
    /\ demo_results = << >>
    /\ report_path = None
    /\ doc_request = None
    /\ steps_status = None

\* one execution of the body and the decision of the retry loop that follows
GeminiAttempt ==
    /\ pc = "gemini_attempt"
    /\ \E outcome \in ModelOutcomes :
          LET result == AttemptBody(outcome)
          IN  /\ attempts' = Append(attempts, [outcome |-> outcome, ok |-> result.ok,
                                               value |-> result.value])
              /\ pc' = IF result.ok THEN "gemini_returned"
                       ELSE IF Len(attempts) + 1 >= stop_after_attempt THEN "gemini_failed"
                       ELSE "gemini_attempt"
    /\ UNCHANGED <<language, doc_intel_output, extraction_output, validation_result,
                   risk_analysis_output, final_report, llm_log, stages, risk_trace, mode,
                   demo_results, report_path, doc_request, steps_status>>

NextGemini == GeminiAttempt

SpecGemini == InitGemini /\ [][NextGemini]_vars

(***************************************************************************)
(* The collaboration re-query: the Risk Scorer applied to extractions      *)
(* with a missing claimant, so that the re-query is asked for, against     *)
(* every shape of reply collaborative_extract can hand back for the fields *)
(* claim_amount and policy_number.                                         *)
(***************************************************************************)
NotADictDetails ==
    [is_dict |-> FALSE, value |-> JNull, confidence |-> JAbsent, red_flags |-> << >>]

CollabDetails(field) ==
    {NotADictDetails}
    \cup {Details(value, confidence, n) :
            value \in {JNull, NewValue(field)},
            confidence \in {JAbsent, JNull, JStr(<< "High" >>), JStr(<< "Medium" >>),
                            JStr(<< "Low" >>)},
            n \in 0..MaxRedFlags}

CollabReplies ==
    {NoCollabCall,
     [ok |-> TRUE, kind |-> "malformed", fields |-> << >>],
     [ok |-> TRUE, kind |-> "scalar", fields |-> << >>],
     CollabObject(<< >>)}
    \cup {CollabObject(<< [field |-> f, details |-> d] >>) :
            f \in {"claim_amount"}, d \in CollabDetails("claim_amount")}
    \cup {CollabObject(<< [field |-> "claim_amount", details |-> d1],
                          [field |-> "policy_number", details |-> d2] >>) :
            d1 \in CollabDetails("claim_amount"), d2 \in CollabDetails("policy_number")}

CollabExtractions ==
    {ExtractedData(JNull, pn, JStr(<< "2024-01-05" >>), am, JAbsent) :
        pn \in {JStr(<< >>), JStr(<< "PN-", "1001" >>)},
        am \in {JNull, JNum(1200), JNum(60000)}}

CollabRiskReplies ==
    {Failed(EmptyRiskReply),
     Answered(EmptyRiskReply),
     Answered(RiskReply([present |-> TRUE, text |-> "Low"], Line(<< "Yes", " - staged" >>),
                        [present |-> TRUE, text |-> "Urgent"], Line(IndicatorItems(1)),
                        NoLine, Line(<< "Insufficient", " data" >>)))}

InitCollab ==
    /\ pc = "risk_analysis"
    /\ language \in {"en"}
    /\ mode = "run"
    /\ doc_intel_output = DocIntelProcess(".pdf", "ok", "ok", "ok", 200)
    /\ extraction_output \in CollabExtractions
    /\ validation_result = RuleCheckProcess(extraction_output)
    /\ risk_analysis_output = None
    /\ final_report = None
    /\ llm_log = << >>
    /\ stages = << "doc_intel", "info_extract", "rule_check" >>
    /\ risk_trace = None
    /\ demo_results = << >>
    /\ report_path = None
    /\ doc_request = None
    /\ attempts = << >>
    /\ steps_status = None

ScoreWithCollaboration == RiskAnalysisStep(CollabRiskReplies, CollabReplies, {TRUE})

NextCollab == ScoreWithCollaboration

SpecCollab == InitCollab /\ [][NextCollab]_vars

(***************************************************************************)
(* The web UI (app/main.py, main): the five agents are called one by one,  *)
(* each inside its own try/except; the whole handler is inside one outer   *)
(* try whose except reports the error and ends the run.                    *)
(***************************************************************************)
WebExtractionReplies ==
    PipelineExtractionReplies \cup {[kind |-> "array", data |-> EmptyList]}

\* RuleCheckAgent.process on whatever step 2 returned: `field not in data`
\* raises TypeError on a number or null and finds no key in a list
RuleCheckCall(data) ==
    CASE data = NotADict -> Raised
      [] data = EmptyList ->
             [is_valid |-> FALSE,
              violations |-> << MissingViolation(required_fields[1]),
                                MissingViolation(required_fields[2]),
                                MissingViolation(required_fields[3]) >>,
              validated_data |-> data]
      [] OTHER -> RuleCheckProcess(data)

\* RiskAnalysisAgent.process: extracted_data.get of _analyze_fraud_patterns is
\* called before the try of process
RiskCall(extracted_data, validation, doc, has_agent, llm, collab_llm) ==
    IF ~IsDict(extracted_data) THEN Raised
    ELSE RiskProcess(extracted_data, validation, doc, has_agent, llm, collab_llm)

\* main lines 390-391: `from agents.rule_check import RuleValidationResult`,
\* a name rule_check.py does not define
WebRuleFallback == Raised

\* main lines 414-422: RiskAnalysisOutput(...) without risk_level,
\* analysis_details, source_uri and estimated_settlement_range, which the
\* dataclass requires
WebRiskFallback == Raised

\* main lines 442-467
WebReportFallback ==
    [report_content |->
         [zh |-> TRUE, executive_summary |-> << >>, detailed_reasoning |-> << >>,
          compliance_notes |-> << >>, claim_amount |-> << >>],
     recommendation |-> "Manual_Review",
     confidence_score |-> 50,
     processing_priority |-> "Standard",
     investigation_required |-> FALSE,
     next_actions |-> << "manual review", "technical support", "resubmit" >>]

InitWeb ==
    /\ pc = "web_doc"
    /\ language \in {"zh", "en"}
    /\ mode = "web"
    /\ doc_intel_output = None
    /\ extraction_output = None
    /\ validation_result = None
    /\ risk_analysis_output = None
    /\ final_report = None
    /\ llm_log = << >>
    /\ stages = << >>
    /\ risk_trace = None
    /\ demo_results = << >>
    /\ report_path = None
    /\ doc_request = None
    /\ attempts = << >>
    /\ steps_status = [doc_analysis |-> "pending", info_extraction |-> "pending",
                       rule_check |-> "pending", risk_analysis |-> "pending",
                       report_generation |-> "pending"]

\* main lines 341-356
WebDocIntel ==
    /\ pc = "web_doc"
    /\ \E suffix \in Suffixes, download \in {"ok", "fail"}, local \in LocalOutcomes,
          llm \in LLMOutcomes, size_kb \in FileSizesKb :
          /\ doc_intel_output' = DocIntelProcess(suffix, download, local, llm, size_kb)
          /\ llm_log' = IF DocIntelCallsLLM(suffix, download, local)
                        THEN Append(llm_log, Call("doc_intel", llm = "ok", "text")) ELSE llm_log
    /\ steps_status' = [steps_status EXCEPT !.doc_analysis = "completed"]
    /\ stages' = Append(stages, "doc_intel")
    /\ pc' = "web_extract"
    /\ UNCHANGED <<language, extraction_output, validation_result, risk_analysis_output,
                   final_report, risk_trace, mode, demo_results, report_path, doc_request,
                   attempts>>

\* main lines 358-373: a failure of step 2 ends the run with `return`
WebInfoExtract ==
    /\ pc = "web_extract"
    /\ stages' = Append(stages, "info_extract")
    /\ \E llm \in {Failed([kind |-> "none", data |-> ExtractionFallback])}
                   \cup {Answered(reply) : reply \in WebExtractionReplies} :
          LET data == InfoExtractProcess(llm)
          IN  /\ llm_log' = Append(llm_log, Call("info_extract", llm.ok, llm.reply.kind))
              /\ extraction_output' = IF data = Raised THEN extraction_output ELSE data
              /\ steps_status' = [steps_status EXCEPT !.info_extraction =
                                      IF data = Raised THEN "failed" ELSE "completed"]
              /\ pc' = IF data = Raised THEN "web_stopped" ELSE "web_rules"
    /\ UNCHANGED <<language, doc_intel_output, validation_result, risk_analysis_output,
                   final_report, risk_trace, mode, demo_results, report_path, doc_request,
                   attempts>>

\* main lines 375-392: when the stage and then its fallback raise, the step is
\* left at "processing" and the outer except ends the run
WebRuleCheck ==
    /\ pc = "web_rules"
    /\ stages' = Append(stages, "rule_check")
    /\ LET r == RuleCheckCall(extraction_output)
           substitute == IF r = Raised THEN WebRuleFallback ELSE r
       IN  /\ validation_result' =
                  IF substitute = Raised THEN validation_result ELSE substitute
           /\ steps_status' = [steps_status EXCEPT !.rule_check =
                  IF r # Raised THEN "completed"
                  ELSE IF substitute = Raised THEN "processing"
                  ELSE "completed_with_warnings"]
           /\ pc' = IF substitute = Raised THEN "web_error" ELSE "web_risk"
    /\ UNCHANGED <<language, doc_intel_output, extraction_output, risk_analysis_output,
                   final_report, llm_log, risk_trace, mode, demo_results, report_path,
                   doc_request, attempts>>

\* main lines 394-423
WebRiskAnalysis ==
    /\ pc = "web_risk"
    /\ stages' = Append(stages, "risk_analysis")
    /\ \E llm \in PipelineRiskReplies :
          LET called == IsDict(extraction_output)
              need == /\ called
                      /\ llm.ok
                      /\ _evaluate_collaboration_need(extraction_output,
                             _parse_ai_response(llm.reply), TRUE, TRUE).invoke
          IN  \E collab_llm \in (IF need THEN PipelineCollabReplies ELSE {NoCollabCall}) :
                 LET r == RiskCall(extraction_output, validation_result,
                                   doc_intel_output, TRUE, llm, collab_llm)
                     substitute == IF r = Raised THEN WebRiskFallback ELSE r.output
                 IN  /\ risk_analysis_output' =
                            IF substitute = Raised THEN risk_analysis_output ELSE substitute
                     /\ risk_trace' = IF r = Raised THEN risk_trace ELSE r.trace
                     /\ steps_status' = [steps_status EXCEPT !.risk_analysis =
                            IF r # Raised THEN "completed"
                            ELSE IF substitute = Raised THEN "processing"
                            ELSE "completed_with_warnings"]
                     /\ pc' = IF substitute = Raised THEN "web_error" ELSE "web_report"
                     /\ llm_log' = llm_log
                                   \o (IF called
                                       THEN << Call("risk_analysis", llm.ok, "text") >>
                                       ELSE << >>)
                                   \o (IF need
                                       THEN << Call("collaborative_extract", collab_llm.ok,
                                                    collab_llm.kind) >>
                                       ELSE << >>)
    /\ UNCHANGED <<language, doc_intel_output, extraction_output, validation_result,
                   final_report, mode, demo_results, report_path, doc_request, attempts>>

\* main lines 425-468
WebReportGen ==
    /\ pc = "web_report"
    /\ stages' = Append(stages, "report_gen")
    /\ \E llm \in ReportReplies :
          LET r == ReportProcess(risk_analysis_output, extraction_output, language, llm)
          IN  /\ final_report' = IF r = Raised THEN WebReportFallback ELSE r
              /\ steps_status' = [steps_status EXCEPT !.report_generation =
                     IF r = Raised THEN "completed_with_warnings" ELSE "completed"]
              /\ llm_log' = Append(llm_log, Call("report_gen", llm.ok, "text"))
    /\ pc' = "web_done"
    /\ UNCHANGED <<language, doc_intel_output, extraction_output, validation_result,
                   risk_analysis_output, risk_trace, mode, demo_results, report_path,
                   doc_request, attempts>>

NextWeb == WebDocIntel \/ WebInfoExtract \/ WebRuleCheck \/ WebRiskAnalysis \/ WebReportGen

SpecWeb == InitWeb /\ [][NextWeb]_vars

(***************************************************************************)
(* Properties.                                                             *)
(***************************************************************************)
LastStage == IF stages = << >> THEN "none" ELSE stages[Len(stages)]

\* the step-4 call of the Risk Scorer was made and failed / was answered
Step4Failed ==
    \E i \in 1..Len(llm_log) : llm_log[i].stage = "risk_analysis" /\ ~llm_log[i].ok
Step4Answered ==
    \E i \in 1..Len(llm_log) : llm_log[i].stage = "risk_analysis" /\ llm_log[i].ok

RiskReturned == risk_analysis_output # None

\* C1: every RiskAssessment returned by RiskAnalysisAgent.process has
\* 0 <= risk_score <= 100, whatever penalties and collaboration adjustment apply.
C1_ScoreWithinRange ==
    RiskReturned =>
        /\ risk_analysis_output.risk_score >= 0
        /\ risk_analysis_output.risk_score <= 100

\* C2: no RiskAssessment has auto_approve_eligible and siu_referral both true.
C2_NeverAutoApproveAndSiu ==
    RiskReturned =>
        ~(risk_analysis_output.auto_approve_eligible /\ risk_analysis_output.siu_referral)

\* C3: when the step-4 LLM call returned a response, siu_referral is true exactly
\* when the final score is >= 75 or the response flagged SIU referral.
C3_SiuIffScoreOrLLMFlag ==
    (RiskReturned /\ Step4Answered) =>
        (risk_analysis_output.siu_referral
            <=> (risk_analysis_output.risk_score >= 75 \/ risk_trace.llm_siu))

\* C4: when no LLM call fails, no stage and no orchestrator step raises, whatever
\* text the calls return.
C4_NoCrashWhenLLMAnswers ==
    (\A i \in 1..Len(llm_log) : llm_log[i].ok) => pc # "raised"

\* C5: a stage whose LLM call failed after the retries returns a fallback output
\* instead of raising, so the run is not aborted by that failure.
C5_LLMFailureNeverAborts ==
    ~(pc = "raised" /\ llm_log # << >> /\ ~llm_log[Len(llm_log)].ok)

ParseFailed ==
    \E i \in 1..Len(llm_log) :
        llm_log[i].stage = "info_extract" /\ llm_log[i].ok /\ llm_log[i].kind = "malformed"

AllStages == << "doc_intel", "info_extract", "rule_check", "risk_analysis", "report_gen" >>

\* C6: when the extraction reply is not parsable JSON, InfoExtractAgent.process
\* returns the fixed fallback object instead of raising, and the run goes on
\* through Rule Validator, Risk Scorer and Report Composer on that object.
C6_ParseFailureIsData ==
    ParseFailed =>
        /\ pc \in {"rule_check", "risk_analysis", "report_gen", "done"}
        /\ extraction_output.error.t = "str"
        /\ extraction_output.raw_output.t = "str"
        /\ \A f \in {"claimant_name", "policy_number", "date_of_incident",
                     "claim_amount", "vehicle_details"} : extraction_output[f] = JNull
        /\ pc # "done" => ENABLED Next
        /\ pc = "done" =>
              /\ stages = AllStages
              /\ validation_result.validated_data = extraction_output
              /\ risk_analysis_output # None
              /\ final_report # None

C6_Witness == ParseFailed /\ pc = "done"

\* C7 as stated: after a failed step-4 call the priority is "Standard" for every score.
C7_FallbackAlwaysStandard ==
    Step4Failed =>
        /\ RiskReturned
        /\ risk_analysis_output.processing_priority = "Standard"

\* C7 (amended): after a failed step-4 call a RiskAssessment is still returned, and
\* its priority is Expedited for a score <= 15, Enhanced_Review for a score >= 75
\* and Standard in between.
C7_FallbackPriorityByScore ==
    Step4Failed =>
        /\ pc = "report_gen"
        /\ RiskReturned
        /\ risk_analysis_output.processing_priority =
               (IF risk_analysis_output.risk_score <= 15 THEN "Expedited"
                ELSE IF risk_analysis_output.risk_score >= 75 THEN "Enhanced_Review"
                ELSE "Standard")

C7_Witness ==
    /\ Step4Failed
    /\ RiskReturned
    /\ risk_analysis_output.risk_score > 15
    /\ risk_analysis_output.risk_score < 75
    /\ risk_analysis_output.processing_priority = "Standard"

\* C8 as stated: after a failed step-4 call the level is Medium for a rule-only
\* score > 30 and Low otherwise, SIU referral follows the threshold, no estimate.
C8_FallbackMediumOrLow ==
    Step4Failed =>
        /\ RiskReturned
        /\ risk_analysis_output.risk_level =
               (IF risk_trace.rule_score > 30 THEN "Medium" ELSE "Low")
        /\ risk_analysis_output.siu_referral <=> (risk_analysis_output.risk_score >= 75)
        /\ risk_analysis_output.estimated_settlement_range = None

\* C8 (amended): after a failed step-4 call the score is the rule-only score capped
\* at 100, the level follows the usual score bands (Critical from 85, High from 70,
\* Medium from 40, else Low), SIU referral follows the threshold 75 alone and there
\* is no settlement estimate.
C8_FallbackLevelByBands ==
    Step4Failed =>
        /\ RiskReturned
        /\ risk_analysis_output.risk_score =
               (IF risk_trace.rule_score > 100 THEN 100 ELSE risk_trace.rule_score)
        /\ \/ risk_analysis_output.risk_score >= 85
              /\ risk_analysis_output.risk_level = "Critical"
           \/ risk_analysis_output.risk_score \in 70..84
              /\ risk_analysis_output.risk_level = "High"
           \/ risk_analysis_output.risk_score \in 40..69
              /\ risk_analysis_output.risk_level = "Medium"
           \/ risk_analysis_output.risk_score < 40
              /\ risk_analysis_output.risk_level = "Low"
        /\ risk_analysis_output.siu_referral <=> (risk_analysis_output.risk_score >= 75)
        /\ risk_analysis_output.estimated_settlement_range = None

C8_Witness ==
    /\ Step4Failed
    /\ RiskReturned
    /\ risk_trace.rule_score > 30
    /\ risk_analysis_output.risk_level = "High"
    /\ ~risk_analysis_output.siu_referral

Recommendations ==
    {"approve", "deny", "manual_review", "siu_referral", "expedited_approve"}

ReportLLMFailed ==
    \E i \in 1..Len(llm_log) : llm_log[i].stage = "report_gen" /\ ~llm_log[i].ok

\* the recommendation the first-match rule gives a RiskAssessment
FirstMatch(ra) ==
    CASE ra.auto_approve_eligible -> "expedited_approve"
      [] ~ra.auto_approve_eligible /\ ra.siu_referral -> "siu_referral"
      [] ~ra.auto_approve_eligible /\ ~ra.siu_referral /\ ra.risk_score >= 70 -> "deny"
      [] ~ra.auto_approve_eligible /\ ~ra.siu_referral /\ ra.risk_score \in 40..69 ->
             "manual_review"
      [] OTHER -> "approve"

\* C9: ReportGenAgent.process never raises; it returns a FinalReport with every
\* field set, and when the narrative LLM call failed the report carries the fixed
\* fallback narrative, confidence 0.6 and the recommendation of the RiskAssessment.
C9_ReportNeverRaises ==
    LastStage = "report_gen" =>
        /\ pc = "done"
        /\ final_report # None
        /\ final_report.recommendation \in Recommendations
        /\ final_report.confidence_score \in Int
        /\ Len(final_report.next_actions) \in {3, 4}
        /\ final_report.processing_priority = risk_analysis_output.processing_priority
        /\ final_report.investigation_required = risk_analysis_output.siu_referral
        /\ ReportLLMFailed =>
              /\ final_report.confidence_score = 60
              /\ final_report.report_content.detailed_reasoning[1] = "Analysis error"
              /\ final_report.report_content.compliance_notes =
                     << "Manual review recommended due to processing limitations." >>
              /\ final_report.recommendation = FirstMatch(risk_analysis_output)

C9_Witness == pc = "done" /\ ReportLLMFailed /\ final_report.confidence_score = 60

\* C10: the recommendation of the FinalReport is the first match of
\* auto_approve_eligible, siu_referral, score >= 70, score >= 40 on the
\* RiskAssessment, for every language and every narrative reply.
C10_RecommendationByFirstMatch ==
    final_report # None =>
        /\ final_report.recommendation = FirstMatch(risk_analysis_output)
        /\ final_report.next_actions[1][1] = final_report.recommendation

C10_Witness ==
    /\ final_report # None
    /\ risk_analysis_output.auto_approve_eligible
    /\ risk_analysis_output.siu_referral
    /\ final_report.recommendation = "expedited_approve"
    /\ ~ReportLLMFailed
    /\ language = "zh"

\* C11: the five stages run in the fixed order, each at most once and only
\* after the previous one has returned, so the outputs exist in that order and
\* a completed run holds exactly one of each (in demo mode, one map entry each).
C11_StagesInFixedOrder ==
    /\ \E n \in 0..5 : stages = SubSeq(AllStages, 1, n)
    /\ (doc_intel_output # None) <=> (Len(stages) >= 1)
    /\ (extraction_output # None) => (Len(stages) >= 2)
    /\ (Len(stages) >= 3) => (extraction_output # None)
    /\ (validation_result # None) <=> (Len(stages) >= 3)
    /\ (risk_analysis_output # None) <=> (Len(stages) >= 4)
    /\ (final_report # None) => (Len(stages) = 5 /\ pc = "done")
    /\ (pc = "done") => (Len(stages) = 5 /\ final_report # None)
    /\ DOMAIN demo_results \subseteq {stages[i] : i \in 1..Len(stages)}
    /\ (pc = "done" /\ mode = "demo") =>
           (DOMAIN demo_results = {AllStages[i] : i \in 1..5})

C11_Witness ==
    /\ pc = "done"
    /\ mode = "demo"
    /\ stages = AllStages
    /\ final_report # None

\* step 2 did not complete: its LLM call failed inside process, or the reply
\* parsed to something that is not a JSON object and run raised on its keys()
StageRaised ==
    \E i \in 1..Len(llm_log) :
        /\ llm_log[i].stage = "info_extract"
        /\ (~llm_log[i].ok \/ llm_log[i].kind = "scalar")

\* C12: when a stage raises, run and run_for_demo do not recover: the run ends
\* there, no later stage is executed, no FinalReport exists and run_for_demo has
\* saved no report.
C12_NoRecoveryAfterRaise ==
    StageRaised =>
        /\ pc = "raised"
        /\ LastStage = "info_extract"
        /\ validation_result = None
        /\ risk_analysis_output = None
        /\ final_report = None
        /\ report_path = None
        /\ DOMAIN demo_results = {"doc_intel"} \/ mode = "run"
        /\ ~ENABLED Next

C12_Witness == StageRaised /\ pc = "raised" /\ mode = "demo"

WebLateSteps == {"rule_check", "risk_analysis", "report_generation"}

\* C13: in the web UI, once steps 1 and 2 have completed the run always ends
\* with a report: a later stage that raises is replaced by its fallback and
\* marked completed_with_warnings, the remaining stages run, and the outputs of
\* the earlier stages are kept.
C13_WebLateFailureStillReports ==
    (mode = "web" /\ steps_status.info_extraction = "completed"
         /\ pc \in {"web_done", "web_stopped", "web_error"}) =>
        /\ pc = "web_done"
        /\ final_report # None
        /\ \A st \in WebLateSteps :
               steps_status[st] \in {"completed", "completed_with_warnings"}
        /\ doc_intel_output # None
        /\ extraction_output # None

ErrorKinds ==
    {"error", "invalid_pdf", "image_pdf_error", "word_document_error", "image_error",
     "dicom_error"}

ImageSuffixes == {".jpg", ".jpeg", ".png", ".tiff", ".tif", ".bmp"}

DocProcessed == doc_request # None /\ stages # << >>

DownloadFailed == doc_request.download = "fail"

DocLLMFailed == llm_log # << >> /\ ~llm_log[1].ok

\* the local parsing of the branch was attempted and failed
LocalParseFailed ==
    /\ doc_request.download = "ok"
    /\ \/ doc_request.suffix = ".pdf" /\ doc_request.local \in {"syntax_error", "io_error"}
       \/ doc_request.suffix \in ImageSuffixes /\ doc_request.local # "ok"
       \/ doc_request.suffix = ".docx" /\ doc_request.local \in {"syntax_error", "io_error"}

\* the only failure is that of the text extraction from a .docx file
DocxTextFailureOnly ==
    /\ doc_request.suffix = ".docx"
    /\ LocalParseFailed
    /\ ~DocLLMFailed

IsErrorPayload(payload) ==
    /\ payload.doc_type \in ErrorKinds
    /\ payload.confidence_score = 0
    /\ payload.content = "error_text"

\* C14 as stated: process always returns, and every failure of the download, the
\* local parsing or the LLM call gives an error payload with zero confidence.
C14_EveryFailureIsErrorPayload ==
    DocProcessed =>
        /\ pc = "info_extract"
        /\ doc_intel_output # None
        /\ (DownloadFailed \/ DocLLMFailed \/ LocalParseFailed) =>
               IsErrorPayload(doc_intel_output)

\* C14 (amended): process always returns; every failure of the download or the
\* LLM call and every local parsing failure of the PDF and image branches gives
\* an error payload with zero confidence, while a failed .docx text extraction
\* alone is replaced by a diagnostic text in a word_document payload of
\* confidence 0.85.
C14_FailureIsErrorPayloadButDocx ==
    DocProcessed =>
        /\ pc = "info_extract"
        /\ doc_intel_output # None
        /\ ((DownloadFailed \/ DocLLMFailed \/ LocalParseFailed) /\ ~DocxTextFailureOnly) =>
               IsErrorPayload(doc_intel_output)
        /\ DocxTextFailureOnly =>
               /\ doc_intel_output.doc_type = "word_document"
               /\ doc_intel_output.confidence_score = 85
               /\ doc_intel_output.extracted_text = "Error extracting DOCX text"

C14_Witness ==
    /\ DocProcessed
    /\ DocxTextFailureOnly
    /\ doc_intel_output.doc_type = "word_document"

Validated == validation_result # None /\ IsDict(extraction_output)

HasViolationOf(first_words) ==
    \E i \in 1..Len(validation_result.violations) :
        validation_result.violations[i][1] = first_words

\* C15: for a numeric claim_amount a, the violation list holds a claim-amount range
\* violation iff a <= 0 or a > 50000
C15_AmountRangeViolation ==
    (Validated /\ extraction_output.claim_amount.t = "num") =>
        (HasViolationOf("Claim amount") <=>
            (extraction_output.claim_amount.n <= 0 \/ extraction_output.claim_amount.n > 50000))

C15_Witness ==
    /\ Validated
    /\ extraction_output.claim_amount = JNum(50000)
    /\ ~HasViolationOf("Claim amount")
    /\ extraction_output.policy_number = JStr(<< "see ", "Claim amount", " form" >>)

\* C16: for every policy_number string, the empty one included, a format violation
\* is flagged iff the string does not start with "PN-"
C16_PolicyPrefixViolation ==
    (Validated /\ extraction_output.policy_number.t = "str") =>
        (HasViolationOf("Policy number") <=>
            ~StartsWith(extraction_output.policy_number.s, << "PN-" >>))

Scored == Validated /\ risk_trace # None

\* the penalty when every message is weighted by the rule that produced it
PenaltyByRule(data) ==
    LET missing == Len(Rule1(data))
        amount == Len(Rule2(data))
        format == Len(Rule3(data))
    IN  IF missing + amount + format = 0 THEN 0
        ELSE 10 + 20 * missing + 40 * amount + 15 * format

\* C17: the validation penalty is +10 once, +20 per missing-field violation, +40 per
\* claim-amount violation and +15 per invalid-format violation, each message
\* weighted by the rule that produced it
C17_PenaltyByRuleCategory ==
    Scored => risk_trace.validation_penalty = PenaltyByRule(extraction_output)

\* C18: a claim_amount of 120000 adds at least 25 by the fraud-pattern analysis, lists
\* the "Very high-value claim" indicator, and ends at level Medium or above
C18_VeryHighValueClaim ==
    (Scored /\ extraction_output.claim_amount = JNum(120000)) =>
        /\ risk_trace.fraud_adjustment >= 25
        /\ \E i \in 1..Len(risk_analysis_output.fraud_indicators) :
              risk_analysis_output.fraud_indicators[i] =
                  "Very high-value claim - potential inflation"
        /\ risk_analysis_output.risk_level \in {"Medium", "High", "Critical"}

CollaborationInvoked ==
    \E i \in 1..Len(llm_log) : llm_log[i].stage = "collaborative_extract"

SomeCritical(P(_)) ==
    \E i \in 1..Len(critical_fields) : P(Get(extraction_output, critical_fields[i]))

AnalysisInsufficient ==
    /\ risk_trace.llm_analysis.present
    /\ Contains(Lower(risk_trace.llm_analysis.text), << "insufficient" >>)

Count(b) == IF b THEN 1 ELSE 0

\* k with the third condition read as "the reply states the level Medium"
StatedK ==
    Count(SomeCritical(IsMissing)) + Count(SomeCritical(IsUnclear))
    + Count(risk_trace.llm_level.present /\ LowerWord(risk_trace.llm_level.text) = "medium")
    + Count(AnalysisInsufficient)

\* k with the third condition read as "the reply states Medium or states no level"
DefaultedK ==
    Count(SomeCritical(IsMissing)) + Count(SomeCritical(IsUnclear))
    + Count(~risk_trace.llm_level.present
            \/ LowerWord(risk_trace.llm_level.text) = "medium")
    + Count(AnalysisInsufficient)

\* C20 as stated: after a successful step-4 LLM call, collaborative_extract is
\* invoked iff extractor and document are available and k >= 2, k counting
\* {missing field, unclear field, LLM level is Medium, analysis has "insufficient"}
C20_CollaborationIffStatedK ==
    (Scored /\ risk_trace.llm_ok) =>
        (CollaborationInvoked <=>
            (risk_trace.has_agent /\ doc_intel_output # None /\ StatedK >= 2))

\* C20 (amended): as above, with the third condition true also when the reply
\* states no risk level, which the scorer reads as Medium
C20_CollaborationIffDefaultedK ==
    (Scored /\ risk_trace.llm_ok) =>
        (CollaborationInvoked <=>
            (risk_trace.has_agent /\ doc_intel_output # None /\ DefaultedK >= 2))

C20_Witness ==
    /\ Scored
    /\ risk_trace.llm_ok
    /\ CollaborationInvoked
    /\ DefaultedK = 2
    /\ StatedK = 1

AllFailed(n) == \A i \in 1..n : ~attempts[i].ok

\* C19: generate_content makes at most 3 attempts; it returns the text of the first
\* successful attempt and attempts no more; it fails only after three failed
\* attempts in a row; a failure of any kind before the third is followed by
\* another attempt
C19_AtMostThreeAttempts ==
    (mode = "gemini") =>
        /\ Len(attempts) <= 3
        /\ AllFailed(Len(attempts) - 1)
        /\ (pc = "gemini_returned") <=>
               (attempts # << >> /\ attempts[Len(attempts)].ok)
        /\ (pc = "gemini_returned") => attempts[Len(attempts)].value = "response.text"
        /\ (pc = "gemini_failed") <=> (Len(attempts) = 3 /\ AllFailed(3))
        /\ (pc = "gemini_attempt") <=> (Len(attempts) < 3 /\ AllFailed(Len(attempts)))

C19_Witness ==
    /\ mode = "gemini"
    /\ pc = "gemini_returned"
    /\ Len(attempts) = 3
    /\ attempts[1].outcome = "region"
    /\ attempts[2].outcome = "empty"

CollaborationReturned == risk_trace # None /\ risk_trace.collaboration_invoked

\* collaborative_extract returned collaboration_success true
CollaborationSucceeded ==
    /\ CollaborationReturned
    /\ risk_trace.collaboration_reply.ok
    /\ risk_trace.collaboration_reply.kind # "malformed"

\* what one returned field adds by the three stated terms
StatedFieldTerm(entry) ==
    IF ~entry.details.is_dict THEN 0
    ELSE 10 * Len(entry.details.red_flags)
         + (IF entry.details.confidence.t = "str"
               /\ Lower(entry.details.confidence.s) = << "low" >> THEN 5 ELSE 0)
         - (IF entry.field \in {"claim_amount", "policy_number"}
               /\ ~Truthy(Get(extraction_output, entry.field))
               /\ Truthy(entry.details.value) THEN 10 ELSE 0)

StatedAdjustment ==
    LET f == risk_trace.collaboration_reply.fields
    IN  Max(0 - 20, Min(30, Sum([i \in 1..Len(f) |-> StatedFieldTerm(f[i])])))

\* C21: after a successful re-query the score gains the sum of +10 per red flag, +5
\* per field reported at Low confidence and -10 per previously empty claim_amount
\* or policy_number now populated, clamped to [-20, +30], and nothing else
C21_CollaborationAdjustment ==
    CollaborationSucceeded =>
        /\ risk_trace.risk_adjustment = StatedAdjustment
        /\ risk_analysis_output.risk_score =
               Min(risk_trace.llm_score + StatedAdjustment, 100)

\* the LLM call of collaborative_extract failed, or its text is not JSON
CollaborationFailed ==
    /\ CollaborationReturned
    /\ (~risk_trace.collaboration_reply.ok
        \/ risk_trace.collaboration_reply.kind = "malformed")

Occurrences(q, x) == Cardinality({i \in 1..Len(q) : q[i] = x})

\* C22: when the collaborative LLM call fails or its output cannot be parsed, the
\* Risk Scorer does not raise, adds exactly +5 and exactly one indicator noting
\* the failure, keeps the rest of the step-4 assessment, and the run goes on
C22_CollaborationFailurePenalty ==
    CollaborationFailed =>
        /\ pc = "report_gen"
        /\ ~risk_trace.collaboration_raised
        /\ risk_trace.risk_adjustment = 5
        /\ risk_analysis_output.risk_score = Min(risk_trace.llm_score + 5, 100)
        /\ Occurrences(risk_analysis_output.fraud_indicators,
                       "Collaboration extraction failed") = 1
        /\ risk_analysis_output.fraud_indicators[Len(risk_analysis_output.fraud_indicators)]
               = "Collaboration extraction failed"
        /\ risk_analysis_output.siu_referral
               <=> (risk_analysis_output.risk_score >= 75 \/ risk_trace.llm_siu)
        /\ (risk_analysis_output.risk_score > 15 /\ risk_analysis_output.risk_score < 75)
               => risk_analysis_output.processing_priority = risk_trace.llm_priority

C22_Witness ==
    /\ CollaborationFailed
    /\ risk_trace.collaboration_reply.ok
    /\ risk_trace.llm_siu
    /\ risk_analysis_output.risk_score = risk_trace.llm_score + 5

\* C23: processing_priority is Expedited for a final score <= 15 and
\* Enhanced_Review for a final score >= 75, whatever the LLM suggested; strictly
\* between the two the suggestion of the LLM stands (Standard when the scorer
\* fell back)
C23_PriorityByScore ==
    RiskReturned =>
        /\ (risk_analysis_output.risk_score <= 15)
               => risk_analysis_output.processing_priority = "Expedited"
        /\ (risk_analysis_output.risk_score >= 75)
               => risk_analysis_output.processing_priority = "Enhanced_Review"
        /\ (risk_analysis_output.risk_score > 15 /\ risk_analysis_output.risk_score < 75)
               => risk_analysis_output.processing_priority =
                      (IF risk_trace.llm_ok /\ ~risk_trace.collaboration_raised
                       THEN risk_trace.llm_priority ELSE "Standard")

C23_Witness ==
    /\ RiskReturned
    /\ risk_trace.llm_priority = "Urgent"
    /\ risk_analysis_output.risk_score >= 75
    /\ risk_analysis_output.processing_priority = "Enhanced_Review"

Priorities == {"Expedited", "Standard", "Enhanced_Review"}

\* C24: the processing_priority of every RiskAssessment and of every FinalReport is
\* one of Expedited, Standard, Enhanced_Review, whatever the LLM answered
C24_PriorityInEnumeration ==
    /\ (risk_analysis_output # None)
           => risk_analysis_output.processing_priority \in Priorities
    /\ (final_report # None) => final_report.processing_priority \in Priorities

\* the re-query returned a populated, High-confidence value for the field
ReturnedHighConfidence(entry) ==
    /\ entry.details.is_dict
    /\ Truthy(entry.details.value)
    /\ entry.details.confidence = JStr(<< "High" >>)

\* C25: when the re-query returns a higher-confidence value for a field, that field
\* of the extracted fields holds the returned value when the Report Composer has
\* received them
C25_CollaborationOverwritesField ==
    (pc = "done" /\ CollaborationSucceeded) =>
        \A i \in 1..Len(risk_trace.collaboration_reply.fields) :
            LET entry == risk_trace.collaboration_reply.fields[i]
            IN  ReturnedHighConfidence(entry) =>
                    /\ extraction_output[entry.field] = entry.details.value
                    /\ final_report.report_content.claim_amount =
                           safe_format(extraction_output.claim_amount, language)

CallsOf(stage) == {i \in 1..Len(llm_log) : llm_log[i].stage = stage}

\* C26: in one run collaborative_extract is invoked at most once; its call follows
\* the single LLM call of the Risk Scorer and is followed by no call but that of
\* the Report Composer, and no stage is run twice
C26_CollaborationOneShot ==
    /\ Cardinality(CallsOf("collaborative_extract")) <= 1
    /\ Cardinality(CallsOf("risk_analysis")) <= 1
    /\ \A i \in CallsOf("collaborative_extract") :
          /\ i > 1
          /\ llm_log[i - 1].stage = "risk_analysis"
          /\ \A j \in (i + 1)..Len(llm_log) : llm_log[j].stage = "report_gen"
    /\ \A i, j \in 1..Len(stages) : (stages[i] = stages[j]) => (i = j)

C26_Witness ==
    /\ pc = "done"
    /\ Cardinality(CallsOf("collaborative_extract")) = 1
    /\ llm_log[Len(llm_log)].stage = "report_gen"

\* C27: a claim whose ValidationResult holds at least one violation is never
\* auto_approve_eligible and is never recommended expedited_approve
C27_InvalidNeverAutoApproved ==
    (RiskReturned /\ ~validation_result.is_valid) =>
        /\ ~risk_analysis_output.auto_approve_eligible
        /\ _determine_recommendation(risk_analysis_output, language)[1] # "expedited_approve"

\* C28: when the Structured Field Extractor returned its parse-failure object, the
\* final score is at least 50 and the recommendation of the FinalReport is
\* manual_review, deny or siu_referral, whatever the later replies are
C28_ParseFailureNeverApproved ==
    ParseFailed =>
        /\ extraction_output = ExtractionFallback
        /\ (risk_analysis_output # None) => risk_analysis_output.risk_score >= 50
        /\ (final_report # None) =>
               final_report.recommendation \in {"manual_review", "deny", "siu_referral"}

C28_Witness ==
    /\ ParseFailed
    /\ pc = "done"
    /\ risk_trace.collaboration_invoked
    /\ risk_analysis_output.risk_score < 70
    /\ final_report.recommendation = "manual_review"

\* C29: the Report Composer recommends deny only for a RiskAssessment with
\* siu_referral false and a score of 70 to 74; every score of 75 or more is
\* recommended siu_referral
C29_DenyOnlyBelowReferral ==
    (pc = "done") =>
        /\ (final_report.recommendation = "deny") =>
               /\ ~risk_analysis_output.siu_referral
               /\ risk_analysis_output.risk_score >= 70
               /\ risk_analysis_output.risk_score <= 74
        /\ (risk_analysis_output.risk_score >= 75) =>
               final_report.recommendation = "siu_referral"

C29_Witness ==
    /\ pc = "done"
    /\ final_report.recommendation = "deny"
    /\ risk_analysis_output.risk_score = 70

\* C30: in demonstration mode the risk_analysis entry of the status map has
\* collaboration_used true iff the re-query was invoked during the run
C30_CollaborationUsedReported ==
    (mode = "demo" /\ "risk_analysis" \in DOMAIN demo_results) =>
        (demo_results["risk_analysis"].collaboration_used
            <=> (CallsOf("collaborative_extract") # {}))

====
